---- MODULE Spec2Model ----
(***************************************************************************)
(* Model of the lexical scanner (analisador_lexical.py), the recursive     *)
(* descent parser (analisador_sintatico.py) and the driver (main.py).      *)
(*                                                                         *)
(* A source text is a sequence of one-character strings.  The scanner is   *)
(* modelled one iteration of get_next_token's loop at a time; the parser   *)
(* runs as one step once tokenize has returned the whole token sequence.   *)
(***************************************************************************)
EXTENDS Integers, Sequences, FiniteSets, TLC

VARIABLES
    text,       \* Lexer.text (after newline normalisation)
    pos,        \* Lexer.pos (0-based index of the current character)
    line,       \* Lexer.line
    col,        \* Lexer.col
    tokens,     \* the list built by Lexer.tokenize
    lexError,   \* the LexicalError raised by the scanner, or NoLexError
    pc,         \* "lex": tokenize is running, "parse": Parser constructed, "done"
    ppos,       \* Parser.pos (0-based index into tokens)
    root,       \* the Node returned by parse_programa, or NoNode
    synError    \* the SyntaxError_ raised by the parser, or NoSynError

vars == <<text, pos, line, col, tokens, lexError, pc, ppos, root, synError>>

(***************************************************************************)
(* Bounds of the checked input sets.                                       *)
(***************************************************************************)
MaxLen == 4
MaxExprLen == 4
MaxProgLen == 3
MaxRunLen == 2

(***************************************************************************)
(* Call by value.                                                          *)
(***************************************************************************)
\* F(v) with the argument evaluated before the call, as the code does
At(v, F(_)) == CHOOSE r \in {F(x) : x \in {v}} : TRUE

(***************************************************************************)
(* Characters.                                                             *)
(***************************************************************************)
None == "None"

Digits == {"0", "1", "2", "3", "4", "5", "6", "7", "8", "9"}

LowerLetters ==
    <<"a", "b", "c", "d", "e", "f", "g", "h", "i", "j", "k", "l", "m",
      "n", "o", "p", "q", "r", "s", "t", "u", "v", "w", "x", "y", "z">>

UpperLetters ==
    <<"A", "B", "C", "D", "E", "F", "G", "H", "I", "J", "K", "L", "M",
      "N", "O", "P", "Q", "R", "S", "T", "U", "V", "W", "X", "Y", "Z">>

ascii_letters ==
    {LowerLetters[i] : i \in 1..26} \cup {UpperLetters[i] : i \in 1..26}

Whitespace == {" ", "\t", "\n"}

\* str.lower() on one character
LowerChar(c) ==
    IF \E i \in 1..26 : UpperLetters[i] = c
    THEN LowerLetters[CHOOSE i \in 1..26 : UpperLetters[i] = c]
    ELSE c

\* str.lower() on a lexeme
Lower(s) == At(s, LAMBDA v : [i \in 1..Len(v) |-> At(v[i], LowerChar)])

RESERVED ==
    (<<"i", "n", "t">> :> "INT")
    @@ (<<"f", "l", "o", "a", "t">> :> "FLOAT")
    @@ (<<"i", "n", "i", "c", "i", "o">> :> "INICIO")
    @@ (<<"d", "e", "c", "l", "s">> :> "DECLS")
    @@ (<<"f", "i", "m", "d", "e", "c", "l", "s">> :> "FIMDECLS")
    @@ (<<"c", "o", "d", "i", "g", "o">> :> "CODIGO")
    @@ (<<"f", "i", "m", "p", "r", "o", "g">> :> "FIMPROG")
    @@ (<<"l", "e", "i", "a">> :> "LEIA")
    @@ (<<"e", "s", "c", "r", "e", "v", "a">> :> "ESCREVA")
    @@ (<<"s", "e">> :> "SE")
    @@ (<<"e", "n", "t", "a", "o">> :> "ENTAO")
    @@ (<<"b", "l", "o", "c", "o">> :> "BLOCO")
    @@ (<<"f", "i", "m", "b", "l", "o", "c", "o">> :> "FIMBLOCO")
    @@ (<<"e">> :> "E")
    @@ (<<"o", "u">> :> "OU")
    @@ (<<"p", "r", "i", "n", "t">> :> "PRINT")
    @@ (<<"w", "h", "i", "l", "e">> :> "WHILE")
    @@ (<<"e", "l", "s", "e">> :> "ELSE")

(***************************************************************************)
(* Lexer.__init__: newline normalisation.                                  *)
(***************************************************************************)
\* text.replace('\r\n', '\n'): every '\r' that a '\n' follows is dropped
ReplaceCRLF(s) ==
    LET pairs == [i \in 1..Len(s) |-> <<s[i], IF i < Len(s) THEN s[i + 1] ELSE None>>]
        kept == SelectSeq(pairs, LAMBDA p : ~(p[1] = "\r" /\ p[2] = "\n"))
    IN  [i \in 1..Len(kept) |-> kept[i][1]]

ReplaceCR(s) == [i \in 1..Len(s) |-> IF s[i] = "\r" THEN "\n" ELSE s[i]]

Normalize(s) == ReplaceCR(ReplaceCRLF(s))

(***************************************************************************)
(* The scanner's cursor: a record [pos, line, col] over the text.          *)
(***************************************************************************)
Cursor(p, l, c) == [pos |-> p, line |-> l, col |-> c]

\* Lexer.current_char at a cursor
current_char(c) == IF c.pos >= Len(text) THEN None ELSE text[c.pos + 1]

\* Lexer.advance
Lexer_advance(c) ==
    LET nl  == current_char(c) = "\n"
        l1  == IF nl THEN c.line + 1 ELSE c.line
        c1  == IF nl THEN 0 ELSE c.col
        p1  == c.pos + 1
    IN  Cursor(p1, l1, IF p1 >= Len(text) THEN c1 ELSE c1 + 1)

\* Lexer.peek
peek(c, n) == IF c.pos + n >= Len(text) THEN None ELSE text[c.pos + n + 1]

\* Lexer.peek_next_non_whitespace
RECURSIVE peek_from(_)
peek_from(p) ==
    IF p < Len(text) /\ text[p + 1] \in Whitespace THEN peek_from(p + 1)
    ELSE IF p < Len(text) THEN text[p + 1] ELSE None

peek_next_non_whitespace(c) == peek_from(c.pos)

\* LexicalError raised by Lexer.error; a line or column of 0 stands for the
\* falsy argument that makes the call fall back on the cursor
NoLexError == [message |-> "", line |-> 0, column |-> 0, char |-> None]

error(c, message, char, l, k) ==
    [message |-> message,
     line    |-> IF l # 0 THEN l ELSE c.line,
     column  |-> IF k # 0 THEN k ELSE c.col,
     char    |-> char]

Token(type, value, l, k) == [type |-> type, value |-> value, line |-> l, column |-> k]

NoToken == Token("", <<>>, 0, 0)

\* the outcome of one scanner routine: the cursor after it, and either the
\* token it returned or the fault it raised
Scanned(c, tok) == [cur |-> c, tok |-> tok, err |-> NoLexError]
Raised(c, e) == [cur |-> c, tok |-> NoToken, err |-> e]

\* Lexer.skip_whitespace
RECURSIVE skip_whitespace(_)
skip_whitespace(c) ==
    IF current_char(c) # None /\ current_char(c) \in Whitespace
    THEN At(Lexer_advance(c), skip_whitespace)
    ELSE c

\* Lexer.skip_line_comment
RECURSIVE skip_line_comment(_)
skip_line_comment_stay(c) == c

skip_line_comment(c) ==
    IF current_char(c) # None /\ current_char(c) # "\n"
    THEN At(Lexer_advance(c), skip_line_comment)
    ELSE c

\* Lexer.skip_block_comment: the fault of an unterminated comment
UnterminatedAtCursor(c, start) ==
    error(c, "Unterminated block comment", None, 0, 0)

Unterminated(c, start) ==
    error(c, "Unterminated block comment", None, start.line, start.col)

\* Lexer.skip_block_comment: the loop after the opening '/*' is consumed
RECURSIVE block_comment_loop(_, _)
block_comment_loop(c, start) ==
    IF current_char(c) # None
    THEN IF current_char(c) = "*" /\ peek(c, 1) = "/"
         THEN Scanned(Lexer_advance(Lexer_advance(c)), NoToken)
         ELSE At(Lexer_advance(c), LAMBDA c1 : block_comment_loop(c1, start))
    ELSE Raised(c, Unterminated(c, start))

skip_block_comment(c) == block_comment_loop(Lexer_advance(Lexer_advance(c)), c)

\* the digit loops of Lexer.number: the cursor after the run of digits
RECURSIVE skip_digits(_)
skip_digits(c) ==
    IF current_char(c) # None /\ current_char(c) \in Digits
    THEN At(Lexer_advance(c), skip_digits)
    ELSE c

\* the characters between two cursors (the num_str / result accumulated)
Lexeme(from, to) == SubSeq(text, from.pos + 1, to.pos)

\* Lexer.number
number(c) ==
    IF current_char(c) = "."
    THEN LET c1 == Lexer_advance(c)
         IN  IF current_char(c1) = None \/ current_char(c1) \notin Digits
             THEN Raised(c1, error(c1, "Invalid numeric constant: '.' not followed by digits",
                                   ".", c.line, c.col))
             ELSE LET c2 == skip_digits(c1)
                  IN  Scanned(c2, Token("NUMBER", Lexeme(c, c2), c.line, c.col))
    ELSE LET c1 == skip_digits(c)
         IN  IF current_char(c1) = "."
             THEN LET c2 == Lexer_advance(c1)
                  IN  IF current_char(c2) = None \/ current_char(c2) \notin Digits
                      THEN Raised(c2, error(c2, "Invalid numeric constant: digits required after decimal point",
                                            ".", c.line, c.col))
                      ELSE LET c3 == skip_digits(c2)
                           IN  IF current_char(c3) = "."
                               THEN Raised(c3, error(c3, "Invalid numeric constant: multiple decimal points",
                                                     ".", 0, 0))
                               ELSE Scanned(c3, Token("NUMBER", Lexeme(c, c3), c.line, c.col))
             ELSE Scanned(c1, Token("NUMBER", Lexeme(c, c1), c.line, c.col))

\* the loop of Lexer.identifier_or_keyword
RECURSIVE skip_identifier(_)
skip_identifier(c) ==
    IF current_char(c) # None
       /\ (current_char(c) \in ascii_letters \/ current_char(c) = "_"
           \/ current_char(c) \in Digits)
    THEN At(Lexer_advance(c), skip_identifier)
    ELSE c

\* Lexer.identifier_or_keyword
identifier_or_keyword(c) ==
    IF current_char(c) = None
    THEN Raised(c, error(c, "Unexpected end while parsing identifier", None, c.line, c.col))
    ELSE IF current_char(c) \notin ascii_letters /\ current_char(c) # "_"
    THEN Raised(c, error(c, "Identifiers must start with ASCII letter or underscore",
                         current_char(c), c.line, c.col))
    ELSE At(skip_identifier(c),
            LAMBDA c1 :
                At(Lower(Lexeme(c, c1)),
                   LAMBDA low :
                       Scanned(c1, Token(IF low \in DOMAIN RESERVED
                                         THEN RESERVED[low] ELSE "IDENTIFIER",
                                         Lexeme(c, c1), c.line, c.col))))

\* Lexer.get_next_token: a one-character token
single(c, type) ==
    Scanned(Lexer_advance(c), Token(type, <<current_char(c)>>, c.line, c.col))

\* Lexer.get_next_token: a relational operator or '=' with one-character lookahead
double(c, type2, type1) ==
    IF peek(c, 1) = "="
    THEN Scanned(Lexer_advance(Lexer_advance(c)),
                 Token(type2, <<current_char(c), "=">>, c.line, c.col))
    ELSE Scanned(Lexer_advance(c), Token(type1, <<current_char(c)>>, c.line, c.col))

\* Lexer.get_next_token: whether the numeric-literal branch is taken
starts_number(c) ==
    current_char(c) \in Digits
    \/ (current_char(c) = "." /\ peek(c, 1) # None /\ peek(c, 1) \in Digits)

\* Lexer.get_next_token: the check made after number() has returned
after_number_no_check(c, r) == r

after_number(c, r) ==
    IF r.err # NoLexError THEN r
    ELSE IF peek_next_non_whitespace(r.cur) = "."
         THEN Raised(r.cur, error(r.cur, "Invalid numeric constant: unexpected '.' after number",
                                  ".", r.tok.line, r.tok.column))
         ELSE r

\* Lexer.get_next_token: one loop iteration that returns a token or raises
scan_token(c) ==
    LET ch == current_char(c)
    IN  IF ch = "+" THEN single(c, "PLUS")
        ELSE IF ch = "-" THEN single(c, "MINUS")
        ELSE IF ch = "*" THEN single(c, "MUL")
        ELSE IF ch = "/" THEN single(c, "DIV")
        ELSE IF ch = "(" THEN single(c, "LPAREN")
        ELSE IF ch = ")" THEN single(c, "RPAREN")
        ELSE IF ch = ">" THEN double(c, "GE", "GT")
        ELSE IF ch = "<" THEN double(c, "LE", "LT")
        ELSE IF ch = "!"
             THEN IF peek(c, 1) = "="
                  THEN Scanned(Lexer_advance(Lexer_advance(c)),
                               Token("NE", <<"!", "=">>, c.line, c.col))
                  ELSE Raised(c, error(c, "Unexpected '!' (expected '!=')", "!", c.line, c.col))
        ELSE IF ch = "=" THEN double(c, "EQ", "ASSIGN")
        ELSE IF starts_number(c) THEN after_number(c, number(c))
        ELSE IF ch \in ascii_letters \/ ch = "_" THEN identifier_or_keyword(c)
        ELSE IF ch = ":" THEN single(c, "COLON")
        ELSE Raised(c, error(c, "Invalid character", ch, c.line, c.col))

(***************************************************************************)
(* The parser.  Every rule takes the token list and Parser.pos and yields  *)
(* either the position after the rule and the Node it built, or the        *)
(* SyntaxError_ it raised.                                                 *)
(***************************************************************************)
NoSynError == [message |-> <<>>, token |-> NoToken, at |-> 0]
NoNode == [label |-> <<>>, children |-> <<>>]

\* Node(label) with its children; a label is the sequence of the pieces
\* that the code formats into one string
Node(label, children) == [label |-> label, children |-> children]

\* Node.add_child
add_child(node, child) == [node EXCEPT !.children = Append(@, child)]

Ok(p, node) == [ok |-> TRUE, pos |-> p, node |-> node, err |-> NoSynError]

\* raise SyntaxError_(message, self.current_token)
Fail(toks, p, message) ==
    [ok |-> FALSE, pos |-> p, node |-> NoNode,
     err |-> [message |-> message, token |-> toks[p + 1], at |-> p]]

\* Parser.current_token
current_token(toks, p) == toks[p + 1]

\* Parser.advance
Parser_advance(toks, p) == IF p < Len(toks) - 1 THEN p + 1 ELSE p

\* Parser.eat
eat(toks, p, token_type) ==
    LET t == current_token(toks, p)
    IN  IF t.type = token_type
        THEN Ok(Parser_advance(toks, p),
                Node(IF t.value # <<>> THEN <<token_type, "(">> \o t.value \o <<")">>
                     ELSE <<token_type>>, <<>>))
        ELSE Fail(toks, p, <<"Esperado", token_type, "encontrado", t.type>>)

\* Parser.peek_next_type
peek_next_type(toks, p) == IF p + 1 < Len(toks) THEN toks[p + 2].type ELSE None

\* Parser.peek_is_colon
peek_is_colon(toks, p) == IF p + 1 < Len(toks) THEN toks[p + 2].type = "COLON" ELSE FALSE

\* the operator node of a binary chain: the accumulated sub-tree is popped
\* from the rule node and becomes the first child, the next operand the second
binary_swapped(node, op, operand) ==
    LET n == Len(node.children)
    IN  Node(node.label,
             Append(SubSeq(node.children, 1, n - 1),
                    Node(op, <<operand, node.children[n]>>)))

binary(node, op, operand) ==
    LET n == Len(node.children)
    IN  Node(node.label,
             Append(SubSeq(node.children, 1, n - 1),
                    Node(op, <<node.children[n], operand>>)))

\* node.add_child(<rule>) where the rule yielded r: a fault in r propagates
attach(st, r) ==
    At(r, LAMBDA v : IF ~v.ok THEN v ELSE Ok(v.pos, add_child(st.node, v.node)))

\* the three statements of a chain's loop body after the operator is read,
\* where the operand's rule yielded r
operate(st, op, r) ==
    At(r, LAMBDA v : IF ~v.ok THEN v ELSE Ok(v.pos, binary(st.node, op, v.node)))

\* node = Node(label) at position p, before its children are added
Start(p, label) == Ok(p, Node(label, <<>>))

\* the steps a rule's body is made of
Eat(token_type) == [kind |-> "eat", arg |-> token_type, among |-> {}, message |-> <<>>]
Rule(name) == [kind |-> "rule", arg |-> name, among |-> {}, message |-> <<>>]
EatAmong(types, message) == [kind |-> "among", arg |-> "", among |-> types, message |-> message]

RelOps == {"GT", "LT", "GE", "LE", "EQ", "NE"}

RECURSIVE sequence(_, _, _), call(_, _, _)

\* the statements node.add_child(...) of a rule's body, in order; the first
\* fault ends the rule
sequence(toks, st, steps) ==
    IF ~st.ok \/ steps = <<>> THEN st
    ELSE LET s == Head(steps)
         IN  At(attach(st,
                       IF s.kind = "eat" THEN eat(toks, st.pos, s.arg)
                       ELSE IF s.kind = "rule" THEN call(s.arg, toks, st.pos)
                       ELSE IF current_token(toks, st.pos).type \in s.among
                            THEN eat(toks, st.pos, current_token(toks, st.pos).type)
                            ELSE Fail(toks, st.pos, s.message)),
                LAMBDA st1 : sequence(toks, st1, Tail(steps)))

\* Parser.parse_fator
parse_fator(toks, p) ==
    IF current_token(toks, p).type \in {"NUMBER", "IDENTIFIER"}
    THEN Ok(Parser_advance(toks, p),
            Node(<<current_token(toks, p).type, "(">> \o current_token(toks, p).value \o <<")">>,
                 <<>>))
    ELSE IF current_token(toks, p).type = "LPAREN"
    THEN sequence(toks, Start(p, <<"Group">>),
                  <<Eat("LPAREN"), Rule("parse_expressao_logica"), Eat("RPAREN")>>)
    ELSE Fail(toks, p, <<"Fator inesperado na expressão">>)

\* Parser.parse_termo: the loop over MUL and DIV
RECURSIVE parse_termo_loop(_, _)
parse_termo_loop_any_operator(toks, st) ==
    IF ~st.ok THEN st
    ELSE IF current_token(toks, st.pos).type \in {"MUL", "DIV", "PLUS", "MINUS"}
    THEN At(operate(st, current_token(toks, st.pos).value,
                    parse_fator(toks, Parser_advance(toks, st.pos))),
            LAMBDA st1 : parse_termo_loop(toks, st1))
    ELSE st

parse_termo_loop(toks, st) ==
    IF ~st.ok THEN st
    ELSE IF current_token(toks, st.pos).type \in {"MUL", "DIV"}
    THEN At(operate(st, current_token(toks, st.pos).value,
                    parse_fator(toks, Parser_advance(toks, st.pos))),
            LAMBDA st1 : parse_termo_loop(toks, st1))
    ELSE st

\* Parser.parse_termo
parse_termo(toks, p) ==
    At(attach(Start(p, <<"Termo">>), parse_fator(toks, p)),
       LAMBDA st : parse_termo_loop(toks, st))

\* Parser.parse_expressao_aritmetica: the loop over PLUS and MINUS
RECURSIVE parse_expressao_aritmetica_loop(_, _)
parse_expressao_aritmetica_loop(toks, st) ==
    IF ~st.ok THEN st
    ELSE IF current_token(toks, st.pos).type \in {"PLUS", "MINUS"}
    THEN At(operate(st, current_token(toks, st.pos).value,
                    parse_termo(toks, Parser_advance(toks, st.pos))),
            LAMBDA st1 : parse_expressao_aritmetica_loop(toks, st1))
    ELSE st

\* Parser.parse_expressao_aritmetica
parse_expressao_aritmetica(toks, p) ==
    At(attach(Start(p, <<"ExpressaoAritmetica">>), parse_termo(toks, p)),
       LAMBDA st : parse_expressao_aritmetica_loop(toks, st))

\* Parser.parse_expressao_relacional: the optional relational operator
RECURSIVE relational_tail_chaining(_, _)
relational_tail_chaining(toks, st) ==
    IF ~st.ok THEN st
    ELSE IF current_token(toks, st.pos).type \in RelOps
    THEN At(operate(st, current_token(toks, st.pos).value,
                    parse_expressao_aritmetica(toks, Parser_advance(toks, st.pos))),
            LAMBDA st1 : relational_tail_chaining(toks, st1))
    ELSE st

relational_tail(toks, st) ==
    IF ~st.ok THEN st
    ELSE IF current_token(toks, st.pos).type \in RelOps
    THEN operate(st, current_token(toks, st.pos).value,
                 parse_expressao_aritmetica(toks, Parser_advance(toks, st.pos)))
    ELSE st

\* Parser.parse_expressao_relacional
parse_expressao_relacional(toks, p) ==
    At(attach(Start(p, <<"ExpressaoRelacional">>), parse_expressao_aritmetica(toks, p)),
       LAMBDA st : relational_tail(toks, st))

\* Parser.parse_expressao_logica: the loop over E and OU
RECURSIVE parse_expressao_logica_loop(_, _)
parse_expressao_logica_loop(toks, st) ==
    IF ~st.ok THEN st
    ELSE IF current_token(toks, st.pos).type \in {"E", "OU"}
    THEN At(operate(st, <<current_token(toks, st.pos).type>>,
                    parse_expressao_relacional(toks, Parser_advance(toks, st.pos))),
            LAMBDA st1 : parse_expressao_logica_loop(toks, st1))
    ELSE st

\* Parser.parse_expressao_logica
parse_expressao_logica(toks, p) ==
    At(attach(Start(p, <<"ExpressaoLogica">>), parse_expressao_relacional(toks, p)),
       LAMBDA st : parse_expressao_logica_loop(toks, st))

\* Parser.parse_atribuicao
parse_atribuicao(toks, p) ==
    sequence(toks, Start(p, <<"Atribuicao">>),
             <<Eat("IDENTIFIER"), Eat("ASSIGN"), Rule("parse_expressao_logica")>>)

\* Parser.parse_if
parse_if(toks, p) ==
    sequence(toks, Start(p, <<"Condicional">>),
             <<Eat("SE"), Rule("parse_expressao_logica"), Eat("ENTAO"), Eat("BLOCO"),
               Rule("parse_comandos"), Eat("FIMBLOCO")>>)

\* Parser.parse_comando
parse_comando(toks, p) ==
    IF current_token(toks, p).type = "LEIA"
    THEN sequence(toks, Start(p, <<"Comando">>), <<Eat("LEIA"), Eat("IDENTIFIER")>>)
    ELSE IF current_token(toks, p).type = "ESCREVA"
    THEN sequence(toks, Start(p, <<"Comando">>),
                  <<Eat("ESCREVA"), Eat("LPAREN"),
                    EatAmong({"IDENTIFIER", "NUMBER"},
                             <<"Esperado identificador ou número dentro de ESCREVA(...)">>),
                    Eat("RPAREN")>>)
    ELSE IF current_token(toks, p).type = "SE"
    THEN sequence(toks, Start(p, <<"Comando">>), <<Rule("parse_if")>>)
    ELSE IF current_token(toks, p).type = "IDENTIFIER"
    THEN IF peek_next_type(toks, p) = "ASSIGN"
         THEN sequence(toks, Start(p, <<"Comando">>), <<Rule("parse_atribuicao")>>)
         ELSE Fail(toks, p,
                   <<"Esperado '=' (ASSIGN) após identificador no início do comando, encontrado",
                     peek_next_type(toks, p)>>)
    ELSE Fail(toks, p, <<"Comando inválido">>)

\* Parser.parse_comandos: the loop
RECURSIVE parse_comandos_loop(_, _)
parse_comandos_loop(toks, st) ==
    IF ~st.ok THEN st
    ELSE IF current_token(toks, st.pos).type \notin {"FIMPROG", "FIMBLOCO", "FIMDECLS", "EOF"}
    THEN At(attach(st, parse_comando(toks, st.pos)), LAMBDA st1 : parse_comandos_loop(toks, st1))
    ELSE st

\* Parser.parse_comandos
parse_comandos(toks, p) == parse_comandos_loop(toks, Start(p, <<"Comandos">>))

\* Parser.parse_decl
parse_decl(toks, p) ==
    sequence(toks, Start(p, <<"Decl">>),
             <<Eat("IDENTIFIER"), Eat("COLON"),
               EatAmong({"INT", "FLOAT"},
                        <<"Tipo esperado (INT ou FLOAT) após ':' na declaração">>)>>)

\* Parser.parse_decls: the loop
RECURSIVE parse_decls_loop(_, _)
parse_decls_loop(toks, st) ==
    IF ~st.ok THEN st
    ELSE IF current_token(toks, st.pos).type \notin {"FIMDECLS", "EOF"}
    THEN IF current_token(toks, st.pos).type = "IDENTIFIER" /\ peek_is_colon(toks, st.pos)
         THEN At(attach(st, parse_decl(toks, st.pos)), LAMBDA st1 : parse_decls_loop(toks, st1))
         ELSE Fail(toks, st.pos,
                   <<"Esperado declaração de variável no formato 'nome:TIPO' ou 'FIMDECLS' para terminar DECLS">>)
    ELSE st

\* Parser.parse_decls
parse_decls(toks, p) == parse_decls_loop(toks, Start(p, <<"Decls">>))

\* a call of self.<name>() at position p
call(name, toks, p) ==
    CASE name = "parse_decls" -> parse_decls(toks, p)
      [] name = "parse_comandos" -> parse_comandos(toks, p)
      [] name = "parse_if" -> parse_if(toks, p)
      [] name = "parse_atribuicao" -> parse_atribuicao(toks, p)
      [] name = "parse_expressao_logica" -> parse_expressao_logica(toks, p)

\* Parser.parse_programa, from Parser.pos = 0
parse_programa(toks) ==
    sequence(toks, Start(0, <<"Programa">>),
             <<Eat("INICIO"), Eat("DECLS"), Rule("parse_decls"), Eat("FIMDECLS"),
               Eat("CODIGO"), Rule("parse_comandos"), Eat("FIMPROG")>>)

(***************************************************************************)
(* The source texts the specifications start from.                         *)
(***************************************************************************)
\* all texts of at most n characters over alphabet A
TextsUpTo(A, n) == UNION {[1..k -> A] : k \in 0..n}

RECURSIVE Flatten(_)
Flatten(ws) == IF ws = <<>> THEN <<>> ELSE Head(ws) \o Flatten(Tail(ws))

\* all texts made of at most n words of W
Bodies(W, n) == {Flatten(ws) : ws \in TextsUpTo(W, n)}

LexAlphabet == {"1", ".", " ", "\n", "/", "*", "#", "a"}

AssignPre ==
    <<"i", "n", "i", "c", "i", "o", " ", "#", "c", "\r", "\n", "d", "e", "c",
      "l", "s", " ", "/", "*", "c", "*", "/", "f", "i", "m", "d", "e", "c",
      "l", "s", " ", "c", "o", "d", "i", "g", "o", " ", "x", "=">>

AssignPost ==
    <<" ", "f", "i", "m", "p", "r", "o", "g">>

IfPre ==
    <<"i", "n", "i", "c", "i", "o", " ", "d", "e", "c", "l", "s", " ", "f",
      "i", "m", "d", "e", "c", "l", "s", " ", "c", "o", "d", "i", "g", "o",
      " ", "s", "e", " ">>

IfPost ==
    <<" ", "e", "n", "t", "a", "o", " ", "b", "l", "o", "c", "o", " ", "f",
      "i", "m", "b", "l", "o", "c", "o", " ", "f", "i", "m", "p", "r", "o",
      "g">>

GroupPre ==
    <<"i", "n", "i", "c", "i", "o", " ", "d", "e", "c", "l", "s", " ", "f",
      "i", "m", "d", "e", "c", "l", "s", " ", "c", "o", "d", "i", "g", "o",
      " ", "x", "=", "(">>

GroupPost ==
    <<")", " ", "f", "i", "m", "p", "r", "o", "g">>

DeclsPre ==
    <<"i", "n", "i", "c", "i", "o", " ", "d", "e", "c", "l", "s", " ">>

DeclsPost ==
    <<" ", "f", "i", "m", "d", "e", "c", "l", "s", " ", "c", "o", "d", "i",
      "g", "o", " ", "f", "i", "m", "p", "r", "o", "g">>

CodePre ==
    <<"i", "n", "i", "c", "i", "o", " ", "#", "c", "\r", "\n", "d", "e", "c",
      "l", "s", " ", "/", "*", "c", "*", "/", "f", "i", "m", "d", "e", "c",
      "l", "s", " ", "c", "o", "d", "i", "g", "o", " ">>

CodePost ==
    <<" ", "f", "i", "m", "p", "r", "o", "g">>

\* an expression as the right side of an assignment, as the condition of
\* an IF, and inside a parenthesised group; its words are an operand, or an
\* operator with its right operand
ExprContexts ==
    {[pre |-> AssignPre, post |-> AssignPost,
      words |-> {<<"a">>, <<"-", "a">>, <<"*", "a">>, <<"<", "a">>, <<" ", "e", " ", "a">>}],
     [pre |-> IfPre, post |-> IfPost,
      words |-> {<<"2">>, <<"+", "3">>, <<"*", "4">>, <<">", "=", "1">>,
                 <<" ", "o", "u", " ", "1">>}],
     [pre |-> GroupPre, post |-> GroupPost,
      words |-> {<<"b", "2">>, <<"-", ".", "5">>, <<"/", "B">>, <<"!", "=", "c">>,
                 <<" ", "E", " ", "d">>}]}

\* the body of the declarations block and the body of the code block
ProgContexts ==
    {[pre |-> DeclsPre, post |-> DeclsPost],
     [pre |-> CodePre, post |-> CodePost]}

ProgWords ==
    {<<"x", " ">>, <<"=", " ">>, <<":", " ">>, <<"i", "n", "t", " ">>, <<"1", " ">>,
     <<"!", " ">>, <<"f", "i", "m", "p", "r", "o", "g", " ">>}

(***************************************************************************)
(* State.                                                                  *)
(***************************************************************************)
cur == Cursor(pos, line, col)



\* Lexer.__init__ on a source text
Construct(src) ==
    /\ text = Normalize(src)
    /\ pos = 0
    /\ line = 1
    /\ col = 1
    /\ tokens = <<>>
    /\ lexError = NoLexError
    /\ pc = "lex"
    /\ ppos = 0
    /\ root = NoNode
    /\ synError = NoSynError

\* every short text over the scanner's alphabet
Init == \E src \in TextsUpTo(LexAlphabet, MaxLen) : Construct(src)

\* programs whose one statement holds an expression of a few words
InitExpr ==
    \E c \in ExprContexts : \E b \in Bodies(c.words, MaxExprLen) :
        Construct(c.pre \o b \o c.post)

\* programs whose declarations block or code block is made of a few words
InitProg ==
    \E c \in ProgContexts, b \in Bodies(ProgWords, MaxProgLen) :
        Construct(c.pre \o b \o c.post)

\* whole declarations and commands
RunWords ==
    {<<"x", ":", "i", "n", "t", " ">>,
     <<"x", "=", "1", "\n">>,
     <<"l", "e", "i", "a", " ", "x", " ">>,
     <<"y", "=", "1", "+", "2", "*", "3", " ", "e", " ", "4", "<", "5", " ",
       "o", "u", " ", "b", " ">>,
     <<"s", "e", " ", "a", "<", "b", " ", "e", "n", "t", "a", "o", " ", "b",
       "l", "o", "c", "o", " ", "x", "=", "1", " ", "f", "i", "m", "b", "l",
       "o", "c", "o", " ">>}

\* the body of the declarations block, the body of the code block, a code
\* block that the end of the text cuts short, and one that ends in a comment
\* never closed
RunContexts ==
    {[pre |-> DeclsPre, post |-> DeclsPost],
     [pre |-> CodePre, post |-> CodePost],
     [pre |-> CodePre, post |-> <<>>],
     [pre |-> CodePre, post |-> <<"/", "*", "c">>]}

\* programs made of a few declarations or commands
InitRun ==
    \E c \in RunContexts, b \in Bodies(RunWords, MaxRunLen) :
        Construct(c.pre \o b \o c.post)

(***************************************************************************)
(* The scanner, one iteration of get_next_token's loop per step.           *)
(***************************************************************************)
MoveTo(c) ==
    /\ pos' = c.pos
    /\ line' = c.line
    /\ col' = c.col

\* the fault raised inside tokenize leaves Parser.__init__ and parse_programa
\* undone: main reports it
RaiseAndGoOn(r) ==
    /\ MoveTo(r.cur)
    /\ lexError' = r.err
    /\ tokens' = Append(tokens, Token("EOF", <<>>, r.cur.line, r.cur.col))
    /\ pc' = "parse"
    /\ UNCHANGED <<text, ppos, root, synError>>

Raise(r) ==
    /\ MoveTo(r.cur)
    /\ lexError' = r.err
    /\ pc' = "done"
    /\ UNCHANGED <<text, tokens, ppos, root, synError>>

SkipWhitespace ==
    /\ pc = "lex"
    /\ current_char(cur) # None
    /\ current_char(cur) \in Whitespace
    /\ MoveTo(skip_whitespace(cur))
    /\ UNCHANGED <<text, tokens, lexError, pc, ppos, root, synError>>

SkipLineComment ==
    /\ pc = "lex"
    /\ current_char(cur) = "#"
    /\ MoveTo(skip_line_comment(cur))
    /\ UNCHANGED <<text, tokens, lexError, pc, ppos, root, synError>>

SkipBlockComment ==
    /\ pc = "lex"
    /\ current_char(cur) = "/"
    /\ peek(cur, 1) = "*"
    /\ LET r == skip_block_comment(cur)
       IN  IF r.err # NoLexError
           THEN Raise(r)
           ELSE /\ MoveTo(r.cur)
                /\ UNCHANGED <<text, tokens, lexError, pc, ppos, root, synError>>

ScanToken ==
    /\ pc = "lex"
    /\ current_char(cur) # None
    /\ current_char(cur) \notin Whitespace
    /\ current_char(cur) # "#"
    /\ ~(current_char(cur) = "/" /\ peek(cur, 1) = "*")
    /\ LET r == scan_token(cur)
       IN  IF r.err # NoLexError
           THEN Raise(r)
           ELSE /\ MoveTo(r.cur)
                /\ tokens' = Append(tokens, r.tok)
                /\ UNCHANGED <<text, lexError, pc, ppos, root, synError>>

\* the loop of get_next_token ends: the EOF token closes tokenize, and
\* Parser.__init__ goes on with pos = 0
ScanEOF ==
    /\ pc = "lex"
    /\ current_char(cur) = None
    /\ tokens' = Append(tokens, Token("EOF", <<>>, line, col))
    /\ pc' = "parse"
    /\ ppos' = 0
    /\ UNCHANGED <<text, pos, line, col, lexError, root, synError>>

\* Parser.__init__ has returned: main calls parse_programa, which either
\* returns the tree or raises the syntax fault that main reports
ParsePrograma ==
    /\ pc = "parse"
    /\ LET r == parse_programa(tokens)
       IN  /\ ppos' = r.pos
           /\ root' = r.node
           /\ synError' = r.err
    /\ pc' = "done"
    /\ UNCHANGED <<text, pos, line, col, tokens, lexError>>

Next ==
    \/ SkipWhitespace
    \/ SkipLineComment
    \/ SkipBlockComment
    \/ ScanToken
    \/ ScanEOF
    \/ ParsePrograma

Spec == Init /\ [][Next]_vars

SpecExpr == InitExpr /\ [][Next]_vars

SpecProg == InitProg /\ [][Next]_vars

\* main runs to its end: a step that is possible is taken
SpecRun == InitRun /\ [][Next]_vars /\ WF_vars(Next)

(***************************************************************************)
(* Vocabulary of the properties.                                           *)
(***************************************************************************)
Lexical == lexError # NoLexError
Syntax == synError # NoSynError
Tree == root # NoNode

\* the kinds of the tokens of a list
Types(toks) == [i \in 1..Len(toks) |-> toks[i].type]

\* a token of a kind, as a continuation of the token list would hold it
Tok(type) == Token(type, <<"?">>, 1, 1)

\* every node of a tree
RECURSIVE Subtrees(_)
Subtrees(n) ==
    {n} \cup UNION {Subtrees(n.children[i]) : i \in 1..Len(n.children)}

(***************************************************************************)
(* C1.  The caller gets exactly one of a tree, a lexical fault and a       *)
(* syntax fault.  A lexical fault anywhere in the text wins: once the      *)
(* scanner has raised it no grammar rule is ever applied (no tree, no      *)
(* syntax fault, the parser's index untouched), and a tree or a syntax     *)
(* fault exists only after the whole text was scanned without fault and    *)
(* closed by the end marker.                                               *)
(***************************************************************************)
C1_LexicalFaultFirst ==
    /\ Lexical => pc = "done" /\ ~Tree /\ ~Syntax /\ ppos = 0
    /\ (Tree \/ Syntax) =>
           /\ ~Lexical
           /\ pc = "done"
           /\ pos >= Len(text)
           /\ tokens # <<>>
           /\ tokens[Len(tokens)].type = "EOF"
    /\ ~(Tree /\ Syntax)
    /\ pc = "done" => (Lexical \/ Tree \/ Syntax)

\* a lexical fault raised after the tokens already scanned violate the
\* grammar: parsing them, closed by an end marker, faults before that marker
C1_Witness ==
    /\ pc = "done"
    /\ Lexical
    /\ tokens # <<>>
    /\ LET r == parse_programa(Append(tokens, Tok("EOF")))
       IN  ~r.ok /\ r.err.at < Len(tokens)

(***************************************************************************)
(* C2.  Whenever parse_programa returns a tree, the parser's current token *)
(* is the end marker: no token is left unconsumed after FIMPROG.           *)
(***************************************************************************)
C2_TreeSpansInput == Tree => current_token(tokens, ppos).type = "EOF"

(***************************************************************************)
(* Shapes of expression trees.                                             *)
(***************************************************************************)
LogicLabels == {<<"E">>, <<"OU">>}
AddLabels == {<<"+">>, <<"-">>}
MulLabels == {<<"*">>, <<"/">>}
RelLabels == {<<">">>, <<"<">>, <<">", "=">>, <<"<", "=">>, <<"=", "=">>, <<"!", "=">>}

OperatorLabels == LogicLabels \cup AddLabels \cup MulLabels \cup RelLabels

\* the token kind an operator node stands for
OperatorKind(label) ==
    CASE label = <<"E">> -> "E"
      [] label = <<"OU">> -> "OU"
      [] label = <<"+">> -> "PLUS"
      [] label = <<"-">> -> "MINUS"
      [] label = <<"*">> -> "MUL"
      [] label = <<"/">> -> "DIV"
      [] label = <<">">> -> "GT"
      [] label = <<"<">> -> "LT"
      [] label = <<">", "=">> -> "GE"
      [] label = <<"<", "=">> -> "LE"
      [] label = <<"=", "=">> -> "EQ"
      [] label = <<"!", "=">> -> "NE"

\* a leaf made from one token: its label is KIND(lexeme)
IsTokenLeaf(n) == Len(n.label) >= 3 /\ n.label[2] = "(" /\ n.children = <<>>

\* the sub-tree of one factor
IsFator(n) ==
    \/ IsTokenLeaf(n) /\ n.label[1] \in {"NUMBER", "IDENTIFIER"}
    \/ n.label = <<"Group">>

\* the sub-tree of one operand of a chain whose operators are in labels
IsOperand(labels, n) ==
    IF labels = LogicLabels THEN n.label = <<"ExpressaoRelacional">>
    ELSE IF labels = AddLabels THEN n.label = <<"Termo">>
    ELSE IsFator(n)

\* the token kinds a tree covers, left to right; an operator node stands
\* between its two operands
RECURSIVE Yield(_)
RECURSIVE YieldAll(_)
YieldAll(ns) == IF ns = <<>> THEN <<>> ELSE Yield(Head(ns)) \o YieldAll(Tail(ns))

Yield(n) ==
    IF IsTokenLeaf(n) THEN <<n.label[1]>>
    ELSE IF n.label \in OperatorLabels /\ Len(n.children) = 2
    THEN Yield(n.children[1]) \o <<OperatorKind(n.label)>> \o Yield(n.children[2])
    ELSE YieldAll(n.children)

\* operand (operator operand)* with the operators among ops, no parentheses
IsFlatChain(kinds, ops) ==
    /\ Len(kinds) % 2 = 1
    /\ \A k \in 1..Len(kinds) :
           IF k % 2 = 1 THEN kinds[k] \in {"NUMBER", "IDENTIFIER"} ELSE kinds[k] \in ops

\* a chain's operator node in the tree
LeftAssociative(labels, n) ==
    /\ Len(n.children) = 2
    /\ IsOperand(labels, n.children[2])
    /\ \/ IsOperand(labels, n.children[1])
       \/ n.children[1].label \in labels

(***************************************************************************)
(* C3.  Every chain of binary operators of one precedence level (E/OU,     *)
(* + and -, * and /) is built left-associatively: each operator node has   *)
(* exactly two children, the second is the sub-tree of the next operand    *)
(* alone, the first is the node of the previous operator of the chain (or  *)
(* the first operand's sub-tree), and the tree read left to right is the   *)
(* token sequence that was parsed.                                         *)
(***************************************************************************)
C3_LeftAssociative ==
    Tree =>
        /\ \A n \in Subtrees(root) :
               /\ n.label \in LogicLabels => LeftAssociative(LogicLabels, n)
               /\ n.label \in AddLabels => LeftAssociative(AddLabels, n)
               /\ n.label \in MulLabels => LeftAssociative(MulLabels, n)
        /\ Yield(root) = SubSeq(Types(tokens), 1, ppos)

\* a-b-c was parsed: an outer '-' node whose first child is the '-' node
\* covering a-b and whose second child covers c
C3_Witness ==
    /\ Tree
    /\ \E n \in Subtrees(root) :
           /\ n.label = <<"-">>
           /\ n.children[1].label = <<"-">>
           /\ Yield(n) = <<"IDENTIFIER", "MINUS", "IDENTIFIER", "MINUS", "IDENTIFIER">>
           /\ Yield(n.children[1]) = <<"IDENTIFIER", "MINUS", "IDENTIFIER">>
           /\ Yield(n.children[2]) = <<"IDENTIFIER">>

(***************************************************************************)
(* C4.  Precedence in the tree shape.  The right operand of an additive    *)
(* operator that is a multiplicative chain f * f ... (tokens i+1..j, not   *)
(* continued by another * or /) is covered by the second child of an       *)
(* additive operator node.                                                 *)
(***************************************************************************)
\* an additive operator at token i followed by the multiplicative chain i+1..j
MulChainAfterAdd(i, j) ==
    /\ tokens[i].type \in {"PLUS", "MINUS"}
    /\ j - i >= 3
    /\ IsFlatChain(SubSeq(Types(tokens), i + 1, j), {"MUL", "DIV"})
    /\ tokens[j + 1].type \notin {"MUL", "DIV"}

\* C4 as stated: the second child of the additive node is itself the node
\* labelled with the multiplicative operator
C4_RightChildIsMulNode ==
    Tree =>
        \A i \in 1..ppos, j \in 1..ppos :
            MulChainAfterAdd(i, j) =>
                \E n \in Subtrees(root) :
                    /\ n.label \in AddLabels
                    /\ Len(n.children) = 2
                    /\ n.children[2].label \in MulLabels
                    /\ Yield(n.children[2]) = SubSeq(Types(tokens), i + 1, j)

\* C4 amended: the second child of the additive node is the Termo node of
\* the operand, whose only child is the node labelled with the
\* multiplicative operator
C4_RightChildIsTermoOfMulNode ==
    Tree =>
        \A i \in 1..ppos, j \in 1..ppos :
            MulChainAfterAdd(i, j) =>
                \E n \in Subtrees(root) :
                    /\ n.label \in AddLabels
                    /\ Len(n.children) = 2
                    /\ n.children[2].label = <<"Termo">>
                    /\ Len(n.children[2].children) = 1
                    /\ n.children[2].children[1].label \in MulLabels
                    /\ Yield(n.children[2]) = SubSeq(Types(tokens), i + 1, j)

\* 2+3*4 was parsed
C4_Witness ==
    /\ Tree
    /\ \E i \in 1..ppos, j \in 1..ppos :
           /\ MulChainAfterAdd(i, j)
           /\ tokens[i].value = <<"+">>
           /\ tokens[i + 2].value = <<"*">>
           /\ j = i + 3

(***************************************************************************)
(* C5.  Relational operators do not chain.  When the parser has read a     *)
(* relational operator (token i) and its right operand, an arithmetic      *)
(* expression without parentheses (tokens i+1..j-1), and the next token j  *)
(* is again a relational operator, no tree is returned: the parse ends in  *)
(* a syntax fault whose offending token is token j.                        *)
(***************************************************************************)
RelationalChain(i, j) ==
    /\ i < j
    /\ tokens[i].type \in RelOps
    /\ tokens[j].type \in RelOps
    /\ IsFlatChain(SubSeq(Types(tokens), i + 1, j - 1), {"PLUS", "MINUS", "MUL", "DIV"})

\* the parser went past token i (1-based) before it returned or raised
ParsedPast(i) == pc = "done" /\ ~Lexical /\ ppos >= i

C5_NoRelationalChain ==
    \A i \in 1..Len(tokens), j \in 1..Len(tokens) :
        RelationalChain(i, j) /\ ParsedPast(i) =>
            /\ ~Tree
            /\ Syntax
            /\ synError.at = j - 1
            /\ synError.token = tokens[j]

\* a<b<c as the condition of an IF: the fault is ENTAO expected at the second '<'
C5_Witness ==
    /\ Syntax
    /\ \E i \in 1..Len(tokens), j \in 1..Len(tokens) :
           /\ RelationalChain(i, j)
           /\ ParsedPast(i)
           /\ synError.at = j - 1
           /\ synError.message = <<"Esperado", "ENTAO", "encontrado", tokens[j].type>>

(***************************************************************************)
(* Positions in the text, counted from the text alone.                     *)
(***************************************************************************)
\* the character at a 0-based index, None past the end
CharAt(p) == IF p < Len(text) THEN text[p + 1] ELSE None

\* the 1-based line and column of the character at a 0-based index
LineOf(p) == 1 + Cardinality({i \in 1..p : text[i] = "\n"})

ColOf(p) ==
    LET nls == {i \in 1..p : text[i] = "\n"}
    IN  IF nls = {} THEN p + 1
        ELSE p + 1 - (CHOOSE i \in nls : \A k \in nls : k <= i)

\* the index after the run of digits, and after the run of blanks, at p
RECURSIVE DigitsEnd(_)
DigitsEnd(p) == IF CharAt(p) \in Digits THEN DigitsEnd(p + 1) ELSE p

RECURSIVE BlanksEnd(_)
BlanksEnd(p) == IF CharAt(p) \in Whitespace THEN BlanksEnd(p + 1) ELSE p

(***************************************************************************)
(* C6.  Every token of the sequence, the end marker included, has          *)
(* line >= 1 and column >= 1.                                              *)
(***************************************************************************)
C6_PositionsOneBased ==
    \A i \in 1..Len(tokens) : tokens[i].line >= 1 /\ tokens[i].column >= 1

(***************************************************************************)
(* C7.  A '.' with no digit right after it, leading (the scanner stands on *)
(* the '.') or trailing (it stands on the digits the '.' follows), makes   *)
(* the scanner raise the numeric-constant fault "decimal point must be     *)
(* followed by a digit" at the literal's first character with '.' as the   *)
(* offending character.                                                    *)
(***************************************************************************)
DotDigitMessages ==
    {"Invalid numeric constant: '.' not followed by digits",
     "Invalid numeric constant: digits required after decimal point"}

DotWithoutDigit ==
    /\ pc = "lex"
    /\ CharAt(pos) \in Digits \cup {"."}
    /\ CharAt(DigitsEnd(pos)) = "."
    /\ CharAt(DigitsEnd(pos) + 1) \notin Digits

C7_DotNeedsDigit ==
    [][DotWithoutDigit =>
           /\ pc' = "done"
           /\ lexError'.message \in DotDigitMessages
           /\ lexError'.line = line
           /\ lexError'.column = col
           /\ lexError'.char = "."]_vars

(***************************************************************************)
(* C8.  When the scanner stands on a complete numeric literal that is      *)
(* followed by one or more blanks and then a '.', it raises the fault      *)
(* "unexpected '.' after number" and no token sequence is returned, even   *)
(* when that '.' begins a valid literal.  The lookahead does not skip      *)
(* comments: when a comment follows the literal (and any blanks), the      *)
(* literal's NUMBER token is returned.                                     *)
(***************************************************************************)
DotAfterNumberMessage == "Invalid numeric constant: unexpected '.' after number"

\* the scanner stands on the first character of a numeric literal
NumberAt ==
    /\ pc = "lex"
    /\ \/ CharAt(pos) \in Digits
       \/ CharAt(pos) = "." /\ CharAt(pos + 1) \in Digits

\* the index after digit+ ('.' digit+)? or '.' digit+ at the cursor
LiteralEnd ==
    IF CharAt(pos) = "." THEN DigitsEnd(pos + 1)
    ELSE IF CharAt(DigitsEnd(pos)) = "." /\ CharAt(DigitsEnd(pos) + 1) \in Digits
         THEN DigitsEnd(DigitsEnd(pos) + 1)
         ELSE DigitsEnd(pos)

NumberBlanksDot ==
    /\ NumberAt
    /\ BlanksEnd(LiteralEnd) > LiteralEnd
    /\ CharAt(BlanksEnd(LiteralEnd)) = "."

NumberThenComment ==
    /\ NumberAt
    /\ \/ CharAt(BlanksEnd(LiteralEnd)) = "#"
       \/ /\ CharAt(BlanksEnd(LiteralEnd)) = "/"
          /\ CharAt(BlanksEnd(LiteralEnd) + 1) = "*"

C8_NoDotAfterNumber ==
    [][/\ NumberBlanksDot =>
              /\ pc' = "done"
              /\ lexError'.message = DotAfterNumberMessage
              /\ tokens' = tokens
       /\ NumberThenComment =>
              /\ pc' = "lex"
              /\ lexError' = NoLexError
              /\ tokens' = Append(tokens,
                                  Token("NUMBER", SubSeq(text, pos + 1, LiteralEnd),
                                        LineOf(pos), ColOf(pos)))]_vars

\* the fault was raised for a '.' that begins a valid literal, as in "1 .5"
C8_Witness ==
    /\ pc = "done"
    /\ lexError.message = DotAfterNumberMessage
    /\ CharAt(pos) \in Whitespace
    /\ CharAt(BlanksEnd(pos)) = "."
    /\ CharAt(BlanksEnd(pos) + 1) \in Digits

(***************************************************************************)
(* C9.  The token a syntax fault carries is the first token that cannot    *)
(* satisfy the grammar: its kind is not among the kinds the grammar        *)
(* accepts at that point, so no continuation of the tokens up to and       *)
(* including it is a program.                                              *)
(***************************************************************************)
Continuations ==
    {<<Tok("EOF")>>,
     <<Tok("FIMPROG"), Tok("EOF")>>,
     <<Tok("ASSIGN"), Tok("NUMBER"), Tok("FIMPROG"), Tok("EOF")>>,
     <<Tok("COLON"), Tok("INT"), Tok("FIMDECLS"), Tok("CODIGO"), Tok("FIMPROG"), Tok("EOF")>>}

\* the tokens up to and including token k begin a program
AcceptableThrough(k) ==
    \E c \in Continuations : parse_programa(SubSeq(tokens, 1, k) \o c).ok

C9_FaultAtFirstBadToken == Syntax => ~AcceptableThrough(synError.at + 1)

(***************************************************************************)
(* C10.  An unterminated block comment is reported where it opened: when   *)
(* the scanner stands on the '/' of a '/*' and no '*/' follows it before   *)
(* the end of the text, it raises the fault at the line and column of      *)
(* that '/', however many lines the comment body spans.                    *)
(***************************************************************************)
UnterminatedMessage == "Unterminated block comment"

OpensComment == pc = "lex" /\ CharAt(pos) = "/" /\ CharAt(pos + 1) = "*"

\* a '*/' begins at some index from p on
ClosedFrom(p) == \E i \in p..Len(text) : CharAt(i) = "*" /\ CharAt(i + 1) = "/"

C10_UnterminatedAtOpening ==
    [][OpensComment /\ ~ClosedFrom(pos + 2) =>
           /\ pc' = "done"
           /\ lexError'.message = UnterminatedMessage
           /\ lexError'.line = LineOf(pos)
           /\ lexError'.column = ColOf(pos)
           /\ tokens' = tokens]_vars

\* the fault of a comment that does not open at the start of its line and
\* whose body spans lines: the cursor ended on a later line
C10_Witness ==
    /\ pc = "done"
    /\ lexError.message = UnterminatedMessage
    /\ lexError.column > 1
    /\ line > lexError.line

(***************************************************************************)
(* C11.  Scanning and parsing always terminate: every run of main on a     *)
(* source text ends, with a lexical fault, a syntax fault or the tree.     *)
(* Every iteration of the scanner's loop moves the character cursor        *)
(* forward or raises, and leaves the loop only at the end of the text;     *)
(* every iteration of the parser's loops (declarations, commands, operator *)
(* chains) moves the token index forward or raises; on the end marker,     *)
(* where Parser.advance moves nothing, no loop goes on.                    *)
(***************************************************************************)
Finished == pc = "done" /\ (Lexical \/ Syntax \/ Tree)

\* one iteration of the loop of get_next_token, as a step of tokenize
ScannerAdvances ==
    pc = "lex" =>
        IF pos < Len(text)
        THEN (pc' = "lex" /\ pos' > pos /\ pos' <= Len(text)) \/ (pc' = "done" /\ Lexical')
        ELSE pc' = "parse" /\ pos' = pos

\* the rule r, entered at index p, raised or left the index further on
Advanced(r, p) == ~r.ok \/ (r.pos > p /\ r.pos < Len(tokens))

\* one iteration of each loop of the parser, were the loop at index p
LoopsAdvanceAt(p) ==
    LET t == current_token(tokens, p).type
        q == Parser_advance(tokens, p)
    IN  /\ (t \notin {"FIMDECLS", "EOF"} /\ t = "IDENTIFIER" /\ peek_is_colon(tokens, p))
               => Advanced(parse_decl(tokens, p), p)
        /\ t \notin {"FIMPROG", "FIMBLOCO", "FIMDECLS", "EOF"}
               => Advanced(parse_comando(tokens, p), p)
        /\ t \in {"E", "OU"}
               => q > p /\ Advanced(parse_expressao_relacional(tokens, q), p)
        /\ t \in {"PLUS", "MINUS"}
               => q > p /\ Advanced(parse_termo(tokens, q), p)
        /\ t \in {"MUL", "DIV"}
               => q > p /\ Advanced(parse_fator(tokens, q), p)
        /\ t = "EOF" <=> q = p

ParserLoopsAdvance ==
    pc = "parse" => \A p \in 0..(Len(tokens) - 1) : LoopsAdvanceAt(p)

C11_Terminates ==
    /\ <>Finished
    /\ [][ScannerAdvances]_vars
    /\ []ParserLoopsAdvance

\* a run that ended with the tree after the loop over the commands went
\* round twice, one command holding every operator chain
C11_Witness ==
    /\ Finished
    /\ Tree
    /\ Len(root.children[6].children) >= 2
    /\ \E n \in Subtrees(root) : n.label = <<"OU">>
    /\ \E n \in Subtrees(root) : n.label = <<"*">>

====
